---- MODULE Spec2Model ----
(***************************************************************************)
(* A model of fscoverage.py, the "Potential Work Orders Management         *)
(* Application": one ExcelEditorApp whose DataFrame self.df is filled from *)
(* a location CSV, matched against a coverage CSV, edited in bulk or by    *)
(* row, stamped with a 27 minute schedule and written to a workbook.       *)
(*                                                                         *)
(* Units.  A coordinate is an integer number of 10^-11 degrees, so that    *)
(* round(10) is a real rounding.  A signal is an integer number of tenths  *)
(* of a dBm (-70 dBm is -700).  A datetime is an integer number of seconds *)
(* since midnight of day 0.                                                *)
(***************************************************************************)
EXTENDS Integers, Sequences, FiniteSets, TLC

VARIABLES df, buttons, disk, last

vars == <<df, buttons, disk, last>>

(***************************************************************************)
(* Cell values.  pandas holds NaN/None (both pd.isna), floats, strings and *)
(* datetimes; every cell is a tagged tuple so that any two cells compare.  *)
(***************************************************************************)
Null == <<"nan">>
F(x) == <<"f", x>>
S(s) == <<"s", s>>
DT(t) == <<"dt", t>>

isna(v) == v = Null
IsNumber(v) == v[1] = "f"

Range(seq) == {seq[i] : i \in DOMAIN seq}

\* a function or record, evaluated once (TLC keeps a function as its rule)
Value(v) == CHOOSE y \in {v} : y = y

(***************************************************************************)
(* Column names of the program.                                            *)
(***************************************************************************)
LAT == "Latitude - Functional Location"
LON == "Longitude - Functional Location"
SERVICE_ACCOUNT == "Service Account - Work Order"
BILLING_ACCOUNT == "Billing Account - Work Order"
WORK_ORDER_TYPE == "Work Order Type - Work Order"
LATBIN == "LatBin"
LONBIN == "LonBin"
DBM == "dBm"
GATEWAY == "Gateway"
PARENT == "Name - Parent Functional Location"
CHILD == "Name - Child Functional Location"
OWNER == "Owner - Work Order"
CSV_LAT == "Latitud"
CSV_LON == "Longitud"
CSV_RSSI == "RSSI / RSCP (dBm)"

datetime_columns ==
    << "Promised window From - Work Order",
       "Promised window To - Work Order",
       "StartTime - Bookable Resource Booking",
       "EndTime - Bookable Resource Booking" >>

time_columns ==
    << "Time window From - Work Order",
       "Time window To - Work Order" >>

required_columns ==
    << PARENT,
       SERVICE_ACCOUNT,
       WORK_ORDER_TYPE,
       "Incident Type - Work Order",
       OWNER,
       "Promised window From - Work Order",
       "Promised window To - Work Order",
       "Time window From - Work Order",
       "Time window To - Work Order",
       "Billing account - Work Order",
       "Name - Bookable Resource Booking",
       "StartTime - Bookable Resource Booking",
       "EndTime - Bookable Resource Booking" >>

(***************************************************************************)
(* The DataFrame: its ordered column labels, the length n of its           *)
(* RangeIndex, and one sequence of n cells per column.                     *)
(***************************************************************************)
EmptyDataFrame == [columns |-> <<>>, n |-> 0, data |-> [c \in {} |-> <<>>]]

HasColumn(d, c) == c \in DOMAIN d.data

Column(d, c) == d.data[c]

\* df[c] = <a list of d.n cells>
SetColumn(d, c, cells) ==
    Value([columns |-> IF HasColumn(d, c) THEN d.columns ELSE Append(d.columns, c),
           n |-> d.n,
           data |-> [k \in DOMAIN d.data \cup {c} |->
                        IF k = c THEN cells ELSE d.data[k]]])

\* df[c] = <scalar>: the scalar in every row
SetItemScalar(d, c, v) == SetColumn(d, c, [i \in 1..d.n |-> v])

\* df[c] = <Series with a RangeIndex>.  A frame whose index is empty takes
\* the index of a non-empty Series (its existing columns are filled with
\* NaN); any other frame keeps its own index, the Series is aligned on it:
\* labels the Series lacks become NaN, labels only the Series has are lost.
SetItemSeries(d, c, ser) ==
    IF d.n = 0 /\ Len(ser) > 0
    THEN Value([columns |-> IF HasColumn(d, c) THEN d.columns ELSE Append(d.columns, c),
                n |-> Len(ser),
                data |-> [k \in DOMAIN d.data \cup {c} |->
                             IF k = c THEN ser ELSE [i \in 1..Len(ser) |-> Null]]])
    ELSE SetColumn(d, c, [i \in 1..d.n |-> IF i <= Len(ser) THEN ser[i] ELSE Null])

\* df.drop(columns=cs, inplace=True)
DropColumns(d, cs) ==
    Value([columns |-> SelectSeq(d.columns, LAMBDA k : k \notin cs),
           n |-> d.n,
           data |-> [k \in DOMAIN d.data \ cs |-> d.data[k]]])

(***************************************************************************)
(* Configuration, as load_config returns it.  config.ini is an input of    *)
(* the program; these are the values of one installation: the coordinate   *)
(* columns are protected, the parent column has an enumerated list, each   *)
(* parent has its own children.                                            *)
(***************************************************************************)
protected_columns == {LAT, LON}

dropdown_values == [c \in {PARENT} |-> {"P1", "P2"}]

parent_child_map == [p \in {"P1", "P2"} |-> IF p = "P1" THEN <<"C1">> ELSE <<"C2">>]

(***************************************************************************)
(* Bounds of the model.                                                    *)
(***************************************************************************)
MaxRows == 2
MaxCovRows == 2
SignalSpan == 2010

(***************************************************************************)
(* Coordinate binning: Series.round(10).  With coordinates counted in      *)
(* 10^-11 degrees, ten decimals are the multiples of BinStep; numpy rounds *)
(* a half to the even neighbour.  NaN stays NaN.                           *)
(***************************************************************************)
BinStep == 10

RoundHalfEven(x) ==
    LET q == x \div BinStep
        r == x % BinStep
    IN  IF 2 * r < BinStep THEN q * BinStep
        ELSE IF 2 * r > BinStep THEN (q + 1) * BinStep
        ELSE IF q % 2 = 0 THEN q * BinStep ELSE (q + 1) * BinStep

round10(v) == IF isna(v) THEN Null ELSE F(RoundHalfEven(v[2]))

\* Series.round raises on a column that holds anything but numbers and NaN
IsNumericColumn(cells) == \A i \in DOMAIN cells : isna(cells[i]) \/ IsNumber(cells[i])

(***************************************************************************)
(* load_coverage_csv's helpers.                                            *)
(***************************************************************************)
\* df_cov.set_index(["LatBin", "LonBin"])[rssi].to_dict(): one entry per
\* key, a later row overwriting an earlier one.  A key holding NaN equals
\* no key that is looked up, so it is left out.
CovKey(row) == <<round10(row[1]), round10(row[2])>>

HasNaN(key) == isna(key[1]) \/ isna(key[2])

\* an earlier row kept over a later one
coverage_map_first(rows) ==
    LET keys == {CovKey(rows[j]) : j \in DOMAIN rows}
        FirstRow(k) == CHOOSE j \in DOMAIN rows :
                          /\ CovKey(rows[j]) = k
                          /\ \A m \in DOMAIN rows : CovKey(rows[m]) = k => j <= m
    IN  Value([k \in {x \in keys : ~HasNaN(x)} |-> rows[FirstRow(k)][3]])

coverage_map(rows) ==
    LET keys == {CovKey(rows[j]) : j \in DOMAIN rows}
        LastRow(k) == CHOOSE j \in DOMAIN rows :
                         /\ CovKey(rows[j]) = k
                         /\ \A m \in DOMAIN rows : CovKey(rows[m]) = k => m <= j
    IN  Value([k \in {x \in keys : ~HasNaN(x)} |-> rows[LastRow(k)][3]])

\* a lookup that misses gives 0 instead of None
apply_coverage_zero(cmap, latbin, lonbin) ==
    LET key == <<latbin, lonbin>>
    IN  IF ~HasNaN(key) /\ key \in DOMAIN cmap THEN cmap[key] ELSE F(0)

\* coverage_map.get(key, None)
apply_coverage(cmap, latbin, lonbin) ==
    LET key == <<latbin, lonbin>>
    IN  IF ~HasNaN(key) /\ key \in DOMAIN cmap THEN cmap[key] ELSE Null

\* the YES range open at -70
classify_gateway_open(rssi) ==
    IF isna(rssi) THEN Null
    ELSE IF -700 < rssi[2] /\ rssi[2] <= -100 THEN S("YES")
    ELSE IF -2000 <= rssi[2] /\ rssi[2] <= -700 THEN S("NO")
    ELSE Null

\* The verdict of a signal; None stands for the unknown verdict.
classify_gateway(rssi) ==
    IF isna(rssi) THEN Null
    ELSE IF -700 <= rssi[2] /\ rssi[2] <= -100 THEN S("YES")
    ELSE IF -2000 <= rssi[2] /\ rssi[2] < -700 THEN S("NO")
    ELSE Null

(***************************************************************************)
(* What the user sees of the last handler that ran: the handler and the    *)
(* message box it showed (result, detail).                                 *)
(***************************************************************************)
Shown(op, result, detail) == [op |-> op, result |-> result, detail |-> detail]

DISABLED == "disabled"
NORMAL == "normal"

\* create_widgets: the three editing buttons are created disabled
create_widgets ==
    [btn_add_granular |-> DISABLED, btn_add_block |-> DISABLED, btn_save_excel |-> DISABLED]

(***************************************************************************)
(* Inputs.  A workbook found at excel_autoload_path: a header row and      *)
(* empty rows under it.                                                    *)
(***************************************************************************)
Workbook(columns, n) ==
    Value([columns |-> columns, n |-> n,
           data |-> [c \in Range(columns) |-> [i \in 1..n |-> Null]]])

template_columns == <<LAT, LON, PARENT, CHILD, OWNER>> \o datetime_columns \o time_columns

short_columns == <<LAT, LON, PARENT, OWNER, datetime_columns[1], time_columns[1]>>

AutoloadBooks ==
    {Workbook(template_columns, 0), Workbook(template_columns, MaxRows),
     Workbook(short_columns, MaxRows)}

\* sequences over A of length at most n
SeqUpTo(A, n) == Value(UNION {[1..k -> A] : k \in 0..n})

(***************************************************************************)
(* __init__: an empty frame, the widgets, and the workbook at the autoload *)
(* path when there is one; reading it enables the three buttons.           *)
(***************************************************************************)
Init ==
    /\ disk = {}
    /\ \/ /\ df = EmptyDataFrame
          /\ buttons = create_widgets
          /\ last = Shown("__init__", "no_autoload", <<>>)
       \/ \E book \in AutoloadBooks :
             /\ df = book
             /\ buttons = [btn_add_granular |-> NORMAL, btn_add_block |-> NORMAL,
                           btn_save_excel |-> NORMAL]
             /\ last = Shown("__init__", "autoloaded", <<>>)

(***************************************************************************)
(* load_csv: the "Georadar CSV load" button.  csv is the file read: its    *)
(* header and its rows <<Latitud, Longitud>>.                              *)
(***************************************************************************)
\* the rows of the file appended under the rows of the frame (a concat)
load_csv_frame_concat(d, csv) ==
    LET k == Len(csv.rows)
        d1 == Value([columns |-> d.columns, n |-> d.n + k,
                     data |-> [c \in DOMAIN d.data |->
                                  [i \in 1..(d.n + k) |->
                                      IF i <= d.n THEN d.data[c][i] ELSE Null]]])
        old(c) == IF HasColumn(d, c) THEN Column(d, c) ELSE [i \in 1..d.n |-> Null]
        d2 == SetColumn(d1, LAT, old(LAT) \o [i \in 1..k |-> csv.rows[i][1]])
        d3 == SetColumn(d2, LON, old(LON) \o [i \in 1..k |-> csv.rows[i][2]])
        d4 == SetItemScalar(d3, SERVICE_ACCOUNT, S("ANER_Senegal"))
        d5 == SetItemScalar(d4, BILLING_ACCOUNT, S("ANER_Senegal"))
    IN  SetItemScalar(d5, WORK_ORDER_TYPE, S("Installation"))

load_csv_frame(d, csv) ==
    LET lat == Value([i \in 1..Len(csv.rows) |-> csv.rows[i][1]])
        lon == Value([i \in 1..Len(csv.rows) |-> csv.rows[i][2]])
        d1 == SetItemSeries(d, LAT, lat)
        d2 == SetItemSeries(d1, LON, lon)
        d3 == SetItemScalar(d2, SERVICE_ACCOUNT, S("ANER_Senegal"))
        d4 == SetItemScalar(d3, BILLING_ACCOUNT, S("ANER_Senegal"))
    IN  SetItemScalar(d4, WORK_ORDER_TYPE, S("Installation"))

\* the header is not checked
load_csv_run_unchecked(d, csv) ==
    [df |-> load_csv_frame(d, csv), result |-> "success"]

load_csv_run(d, csv) ==
    IF CSV_LAT \in csv.columns /\ CSV_LON \in csv.columns
    THEN [df |-> load_csv_frame(d, csv), result |-> "success"]
    ELSE [df |-> d, result |-> "error_columns"]

load_csv(csv) ==
    /\ \E run \in {load_csv_run(df, csv)} :
          /\ df' = run.df
          /\ last' = Shown("load_csv", run.result, <<>>)
    /\ UNCHANGED <<buttons, disk>>

\* the file dialog closed without a file
load_csv_cancel ==
    /\ last' = Shown("load_csv", "cancelled", <<>>)
    /\ UNCHANGED <<df, buttons, disk>>

(***************************************************************************)
(* load_coverage_csv: the "Coverage CSV load" button.  df_cov is the file  *)
(* read: its header and its rows <<Latitud, Longitud, RSSI>>.  Whatever    *)
(* raises inside the try is reported; what was assigned before it stays.   *)
(***************************************************************************)
\* lines 141-164 on a frame whose coordinate columns are numeric
match_coverage(d, df_cov) ==
    LET d1 == SetColumn(d, LATBIN, [i \in 1..d.n |-> round10(Column(d, LAT)[i])])
        d2 == SetColumn(d1, LONBIN, [i \in 1..d.n |-> round10(Column(d1, LON)[i])])
        cmap == coverage_map(df_cov.rows)
        d3 == SetColumn(d2, DBM,
                [i \in 1..d.n |->
                    apply_coverage(cmap, Column(d2, LATBIN)[i], Column(d2, LONBIN)[i])])
        d4 == SetColumn(d3, GATEWAY,
                [i \in 1..d.n |-> classify_gateway(Column(d3, DBM)[i])])
    IN  DropColumns(d4, {LATBIN, LONBIN})

\* self.df[c].round(10) evaluates: the column is there and numeric
CanRound(d, c) == HasColumn(d, c) /\ IsNumericColumn(Column(d, c))

load_coverage_run(d, df_cov) ==
    IF ~(\A col \in {CSV_LAT, CSV_LON, CSV_RSSI} : col \in df_cov.columns)
    THEN [df |-> d, result |-> "error_columns"]
    ELSE IF ~CanRound(d, LAT)
    THEN [df |-> d, result |-> "error_processing"]
    ELSE IF ~CanRound(d, LON)
    THEN [df |-> SetColumn(d, LATBIN, [i \in 1..d.n |-> round10(Column(d, LAT)[i])]),
          result |-> "error_processing"]
    ELSE [df |-> match_coverage(d, df_cov), result |-> "success"]

load_coverage_csv(df_cov) ==
    /\ \E run \in {load_coverage_run(df, df_cov)} :
          /\ df' = run.df
          /\ last' = Shown("load_coverage_csv", run.result, <<>>)
    /\ UNCHANGED <<buttons, disk>>

load_coverage_cancel ==
    /\ last' = Shown("load_coverage_csv", "cancelled", <<>>)
    /\ UNCHANGED <<df, buttons, disk>>

(***************************************************************************)
(* add_block_data: the "Add block data" window.  The user picks a column   *)
(* from the list of unprotected columns (picked, which runs                *)
(* update_input_field) or types a name over it, fills the value field and  *)
(* presses Apply.  The combobox fields accept typed text.                  *)
(***************************************************************************)
\* col_dropdown's values
offered_columns(d) == {c \in Range(d.columns) : c \notin protected_columns}

\* self.df[PARENT].dropna().unique()
unique_parents(d) == {v \in Range(Column(d, PARENT)) : ~isna(v)}

\* update_input_field: picking the child column warns unless the rows have
\* exactly one parent; the value field is built either way
update_input_field_warns(d, selected) ==
    /\ selected = CHILD
    /\ HasColumn(d, PARENT)
    /\ Cardinality(unique_parents(d)) # 1

\* the value is not checked against the list of the column
apply_block_data_unvalidated(d, selected_column, value) ==
    IF selected_column # "" /\ value # ""
    THEN [df |-> SetItemScalar(d, selected_column, S(value)), result |-> "applied"]
    ELSE [df |-> d, result |-> "error_no_column_or_value"]

apply_block_data(d, selected_column, value) ==
    IF selected_column \in DOMAIN dropdown_values
          /\ value \notin dropdown_values[selected_column]
    THEN [df |-> d, result |-> "error_invalid_option"]
    ELSE IF selected_column # "" /\ value # ""
    THEN [df |-> SetItemScalar(d, selected_column, S(value)), result |-> "applied"]
    ELSE [df |-> d, result |-> "error_no_column_or_value"]

add_block_data(in) ==
    /\ buttons.btn_add_block = NORMAL
    /\ in.picked => in.column \in offered_columns(df)
    \* a typed name needs a value field, built by an earlier pick
    /\ ~in.picked => offered_columns(df) # {}
    /\ \E run \in {apply_block_data(df, in.column, in.value)} :
          /\ df' = run.df
          /\ last' = Shown("apply_block_data", run.result,
                           IF in.picked /\ update_input_field_warns(df, in.column)
                           THEN <<"warning_parent">> ELSE <<>>)
    /\ UNCHANGED <<buttons, disk>>

(***************************************************************************)
(* edit_selected_rows: the "Add granular data" window, one entry per       *)
(* unprotected column in column order; Apply runs save_changes.  No entry  *)
(* is validated.  The window is taken to be applied on the columns it was  *)
(* opened on.                                                              *)
(***************************************************************************)
\* entry_idx of a column: the unprotected columns before it
entry_index(d, k) ==
    Cardinality({j \in 1..k : d.columns[j] \notin protected_columns})

strip(text) == IF text = " " THEN "" ELSE text

save_changes(d, selected_items, entries) ==
    Value([columns |-> d.columns, n |-> d.n,
           data |-> [c \in DOMAIN d.data |->
              LET k == CHOOSE j \in 1..Len(d.columns) : d.columns[j] = c
                  new_value == entries[entry_index(d, k)]
              IN  IF c \notin protected_columns /\ strip(new_value) # ""
                  THEN [i \in 1..d.n |->
                          IF i \in selected_items THEN S(new_value) ELSE d.data[c][i]]
                  ELSE d.data[c]]])

\* the entries of a window in which only the field of column c is filled
OneEntry(d, c, text) ==
    [e \in 1..Cardinality(offered_columns(d)) |->
        IF e = entry_index(d, CHOOSE j \in 1..Len(d.columns) : d.columns[j] = c)
        THEN text ELSE ""]

edit_selected_rows(selected_items, c, text) ==
    /\ buttons.btn_add_granular = NORMAL
    /\ IF selected_items = {}
       THEN /\ df' = df
            /\ last' = Shown("edit_selected_rows", "warning_no_selection", <<>>)
       ELSE /\ c \in offered_columns(df)
            /\ df' = save_changes(df, selected_items, OneEntry(df, c, text))
            /\ last' = Shown("save_changes", "applied", <<>>)
    /\ UNCHANGED <<buttons, disk>>

(***************************************************************************)
(* save_excel: the "Save Excel" button asks for the date and time and      *)
(* calls continue_saving with it: the schedule is written into the frame,  *)
(* then the required columns are checked, then the workbook is written.    *)
(***************************************************************************)
SLOT_MINUTES == 27

SECONDS_PER_DAY == 86400

DIGITS == <<"0", "1", "2", "3", "4", "5", "6", "7", "8", "9">>

\* "%02d"
Pad2(k) == DIGITS[(k \div 10) + 1] \o DIGITS[(k % 10) + 1]

\* dt.time().strftime("%H:%M:%S")
strftime_time(t) ==
    LET tod == t % SECONDS_PER_DAY
    IN  Pad2(tod \div 3600) \o ":" \o Pad2((tod % 3600) \div 60) \o ":" \o Pad2(tod % 60)

\* "datos_" + strftime("%d-%m-%Y-%H-%M"): the day, the hour and the minute
file_name(t) ==
    <<t \div SECONDS_PER_DAY, (t % SECONDS_PER_DAY) \div 3600, (t % 3600) \div 60>>

\* the first row one slot after the start
increments_from_one(d, with_datetime) ==
    [i \in 1..d.n |-> with_datetime + SLOT_MINUTES * 60 * i]

\* [with_datetime + timedelta(minutes=27 * i) for i in range(len(self.df))]
increments(d, with_datetime) ==
    [i \in 1..d.n |-> with_datetime + SLOT_MINUTES * 60 * (i - 1)]

\* for col in cols: if col in self.df.columns: self.df[col] = cells
RECURSIVE AssignPresent(_, _, _, _)
AssignPresent(d, cols, k, cells) ==
    IF k > Len(cols) THEN d
    ELSE AssignPresent(IF HasColumn(d, cols[k]) THEN SetColumn(d, cols[k], cells) ELSE d,
                       cols, k + 1, cells)

schedule(d, with_datetime) ==
    LET inc == increments(d, with_datetime)
        d1 == AssignPresent(d, datetime_columns, 1, [i \in 1..d.n |-> DT(inc[i])])
    IN  AssignPresent(d1, time_columns, 1, [i \in 1..d.n |-> S(strftime_time(inc[i]))])

\* the required columns of the frame that hold a null, in list order
missing_data(d) ==
    SelectSeq(required_columns,
              LAMBDA col : HasColumn(d, col) /\ \E i \in 1..d.n : isna(Column(d, col)[i]))

continue_saving(d, files, with_datetime, io_ok) ==
    LET d2 == schedule(d, with_datetime)
        missing == missing_data(d2)
    IN  IF missing # <<>>
        THEN [df |-> d2, disk |-> files, result |-> "missing_data", detail |-> missing]
        ELSE IF io_ok
        THEN [df |-> d2, disk |-> files \cup {file_name(with_datetime)},
              result |-> "saved", detail |-> <<>>]
        ELSE [df |-> d2, disk |-> files, result |-> "error_io", detail |-> <<>>]

save_excel(with_datetime, io_ok) ==
    /\ buttons.btn_save_excel = NORMAL
    /\ \E run \in {continue_saving(df, disk, with_datetime, io_ok)} :
          /\ df' = run.df
          /\ disk' = run.disk
          /\ last' = Shown("continue_saving", run.result, run.detail)
    /\ UNCHANGED buttons

\* submit_manual on a text that is no "%Y-%m-%d %H:%M:%S"
submit_manual_invalid ==
    /\ buttons.btn_save_excel = NORMAL
    /\ last' = Shown("submit_manual", "invalid_format", <<>>)
    /\ UNCHANGED <<df, buttons, disk>>

(***************************************************************************)
(* The gateway classifier alone: a frame whose dBm column holds one        *)
(* signal, and line 163 applied to it.                                     *)
(***************************************************************************)
Signals == {Null} \cup {F(x) : x \in (0 - SignalSpan)..SignalSpan}

InitClassify ==
    /\ \E rssi \in Signals :
          df = SetColumn([EmptyDataFrame EXCEPT !.n = 1], DBM, <<rssi>>)
    /\ buttons = create_widgets
    /\ disk = {}
    /\ last = Shown("apply_coverage", "done", <<>>)

classify_column ==
    /\ ~HasColumn(df, GATEWAY)
    /\ df' = SetColumn(df, GATEWAY, [i \in 1..df.n |-> classify_gateway(Column(df, DBM)[i])])
    /\ last' = Shown("classify_gateway", "done", <<>>)
    /\ UNCHANGED <<buttons, disk>>

SpecClassify == InitClassify /\ [][classify_column]_vars

(***************************************************************************)
(* The two ingest handlers.  Location point A falls into the bin of the    *)
(* coverage point (12, 20) only after rounding; B shares its latitude, not *)
(* its longitude, with the coverage point (30, 40).                        *)
(***************************************************************************)
PointA == <<F(14), F(20)>>
PointB == <<F(30), F(20)>>

\* a file of k rows: A, B, A, ... or B, A, B, ...
LocFile(k, first) ==
    [columns |-> {CSV_LAT, CSV_LON},
     rows |-> Value([i \in 1..k |-> IF (i % 2 = 1) = (first = "A") THEN PointA ELSE PointB])]

LocFiles ==
    {LocFile(k, first) : k \in 0..MaxRows, first \in {"A", "B"}}
        \cup {[columns |-> c, rows |-> <<PointA>>] : c \in {{CSV_LAT}, {CSV_LON}}}

CovRows ==
    {<<F(12), F(20), F(-500)>>, <<F(12), F(20), F(-800)>>, <<F(30), F(40), F(-500)>>}

CovFiles ==
    {[columns |-> {CSV_LAT, CSV_LON, CSV_RSSI}, rows |-> r] : r \in SeqUpTo(CovRows, MaxCovRows)}
        \cup {[columns |-> c, rows |-> <<<<F(12), F(20), F(-500)>>>>] :
                c \in {{CSV_LAT, CSV_LON}, {CSV_LAT, CSV_RSSI}, {CSV_LON, CSV_RSSI}}}

NextIngest ==
    \/ \E csv \in LocFiles : load_csv(csv)
    \/ \E df_cov \in CovFiles : load_coverage_csv(df_cov)

SpecIngest == Init /\ [][NextIngest]_vars

(***************************************************************************)
(* The editing windows, on an autoloaded workbook or after an ingest.      *)
(***************************************************************************)
FullFile == LocFile(MaxRows, "A")

BulkValues == {"P1", "P2", "C1", ""}

BulkInputs ==
    {[column |-> c, value |-> v, picked |-> TRUE] : c \in {PARENT, CHILD}, v \in BulkValues}
        \cup {[column |-> c, value |-> "P1", picked |-> FALSE] : c \in {LAT, CHILD, ""}}

RowEdits == {<<PARENT, "P2">>, <<PARENT, " ">>}

NextEdit ==
    \/ load_csv(FullFile)
    \/ \E in \in BulkInputs : add_block_data(in)
    \/ \E items \in SUBSET (1..df.n), e \in RowEdits : edit_selected_rows(items, e[1], e[2])

SpecEdit == Init /\ [][NextEdit]_vars

(***************************************************************************)
(* The export, on an autoloaded workbook or after an ingest.               *)
(***************************************************************************)
\* 09:00:05 and 23:40:00 on day 0, 13:07:59 on day 1
StartTimes == {32405, 85200, 133679}

ExportBulkInputs ==
    {[column |-> PARENT, value |-> "P1", picked |-> TRUE],
     [column |-> OWNER, value |-> "ana", picked |-> TRUE]}

NextExport ==
    \/ load_csv(FullFile)
    \/ \E in \in ExportBulkInputs : add_block_data(in)
    \/ \E t \in StartTimes, io_ok \in BOOLEAN : save_excel(t, io_ok)
    \/ submit_manual_invalid

SpecExport == Init /\ [][NextExport]_vars

(***************************************************************************)
(* The whole session: every handler, on few inputs.                        *)
(***************************************************************************)
SessionLocFiles ==
    {FullFile, [columns |-> {CSV_LAT}, rows |-> <<<<F(14), F(20)>>>>]}

SessionCovFiles ==
    {[columns |-> {CSV_LAT, CSV_LON, CSV_RSSI}, rows |-> <<<<F(12), F(20), F(-500)>>>>],
     [columns |-> {CSV_LAT, CSV_LON}, rows |-> <<<<F(12), F(20), F(-500)>>>>]}

Next ==
    \/ \E csv \in SessionLocFiles : load_csv(csv)
    \/ load_csv_cancel
    \/ \E df_cov \in SessionCovFiles : load_coverage_csv(df_cov)
    \/ load_coverage_cancel
    \/ \E in \in ExportBulkInputs : add_block_data(in)
    \/ \E items \in SUBSET (1..df.n) : edit_selected_rows(items, PARENT, "P2")
    \/ \E io_ok \in BOOLEAN : save_excel(32405, io_ok)
    \/ submit_manual_invalid

Spec == Init /\ [][Next]_vars

(***************************************************************************)
(*                              The claims                                 *)
(***************************************************************************)
YES == S("YES")
NO == S("NO")
\* the code has no third label: the unknown verdict is None
UNKNOWN == Null

Cell(d, c, i) == Column(d, c)[i]

\* the verdict the specification gives a signal
Verdict(rssi) ==
    IF isna(rssi) THEN UNKNOWN
    ELSE IF rssi[2] >= -700 /\ rssi[2] <= -100 THEN YES
    ELSE IF rssi[2] >= -2000 /\ rssi[2] < -700 THEN NO
    ELSE UNKNOWN

\* C1: the gateway classifier gives every signal a verdict: null gives
\* UNKNOWN, -70 <= signal <= -10 gives YES, -200 <= signal < -70 gives NO,
\* anything else UNKNOWN; -70 and -10 are YES, just below -70 is NO, -200 is
\* NO, just below -200 is UNKNOWN.
C1_ClassifierRanges ==
    HasColumn(df, GATEWAY) =>
        \A i \in 1..df.n :
            LET rssi == Cell(df, DBM, i)
                gateway == Cell(df, GATEWAY, i)
            IN  /\ gateway \in {YES, NO, UNKNOWN}
                /\ gateway = Verdict(rssi)
                /\ rssi \in {F(-700), F(-100)} => gateway = YES
                /\ rssi \in {F(-701), F(-2000)} => gateway = NO
                /\ rssi \in {F(-2001), F(-99), Null} => gateway = UNKNOWN

C1_Witness ==
    /\ HasColumn(df, GATEWAY)
    /\ Cell(df, DBM, 1) = F(-700)
    /\ Cell(df, GATEWAY, 1) = YES

\* whether two coordinate pairs fall into one bin (a NaN falls into none)
SameBin(lat1, lon1, lat2, lon2) ==
    /\ ~isna(lat1) /\ ~isna(lon1) /\ ~isna(lat2) /\ ~isna(lon2)
    /\ round10(lat1) = round10(lat2)
    /\ round10(lon1) = round10(lon2)

\* C2: after a successful coverage match every location row whose bin is
\* the bin of some coverage row holds the signal of such a coverage row and
\* the verdict of that signal, and every other row holds a null signal and
\* the verdict UNKNOWN.
C2_MatchedOrNull ==
    \A df_cov \in CovFiles :
        LET run == load_coverage_run(df, df_cov)
            rows == df_cov.rows
        IN  run.result = "success" =>
              /\ run.df.n = df.n
              /\ \A i \in 1..df.n :
                    LET hits == {j \in DOMAIN rows :
                                    SameBin(Cell(df, LAT, i), Cell(df, LON, i),
                                            rows[j][1], rows[j][2])}
                    IN  IF hits # {}
                        THEN \E j \in hits :
                                /\ Cell(run.df, DBM, i) = rows[j][3]
                                /\ Cell(run.df, GATEWAY, i) = Verdict(rows[j][3])
                        ELSE /\ Cell(run.df, DBM, i) = Null
                             /\ Cell(run.df, GATEWAY, i) = UNKNOWN

C2_Witness ==
    /\ last.op = "load_coverage_csv" /\ last.result = "success"
    /\ \E i, j \in 1..df.n :
          /\ Cell(df, LAT, i) = F(14) /\ Cell(df, DBM, i) = F(-500)
          /\ Cell(df, GATEWAY, i) = YES
          /\ Cell(df, LAT, j) = F(30) /\ Cell(df, DBM, j) = Null
          /\ Cell(df, GATEWAY, j) = UNKNOWN

\* the header of a location file, of a coverage file, is complete
LocHeaderOk(csv) == {CSV_LAT, CSV_LON} \subseteq csv.columns
CovHeaderOk(df_cov) == {CSV_LAT, CSV_LON, CSV_RSSI} \subseteq df_cov.columns

\* C3: a successful location ingest replaces the table wholesale: after a
\* file of M rows the table has exactly M rows, their coordinates are the
\* rows of the file in order, and no signal or verdict of the earlier
\* dataset remains.
C3_WholesaleReplace ==
    \A csv \in LocFiles :
        LET run == load_csv_run(df, csv)
            M == Len(csv.rows)
        IN  run.result = "success" =>
              /\ run.df.n = M
              /\ \A i \in 1..M :
                    /\ Cell(run.df, LAT, i) = csv.rows[i][1]
                    /\ Cell(run.df, LON, i) = csv.rows[i][2]
              /\ \A c \in {DBM, GATEWAY} :
                    HasColumn(run.df, c) => \A i \in 1..run.df.n : isna(Cell(run.df, c, i))

\* C5: a location file without Latitud or Longitud, and a coverage file
\* without Latitud, Longitud or the signal column, is answered with an
\* error, and the step that shows that error leaves the table, the buttons
\* and the disk as they were.
C5_BadHeaderRejected ==
    /\ [](/\ \A csv \in LocFiles :
                ~LocHeaderOk(csv) =>
                    load_csv_run(df, csv) = [df |-> df, result |-> "error_columns"]
          /\ \A df_cov \in CovFiles :
                ~CovHeaderOk(df_cov) =>
                    load_coverage_run(df, df_cov) = [df |-> df, result |-> "error_columns"])
    /\ [][last'.result = "error_columns" =>
              /\ last'.op \in {"load_csv", "load_coverage_csv"}
              /\ df' = df /\ buttons' = buttons /\ disk' = disk]_vars

C5_Witness ==
    /\ last.op = "load_csv" /\ last.result = "error_columns"
    /\ HasColumn(df, LAT) /\ df.n = MaxRows
    /\ Cell(df, LAT, 1) = PointA[1]
    /\ HasColumn(df, SERVICE_ACCOUNT)

\* C10: ingesting the same location file twice in a row leaves the table
\* of the first ingest: the same rows, the same count.
C10_IngestIdempotent ==
    \A csv \in LocFiles :
        LET first == load_csv_run(df, csv)
            second == load_csv_run(first.df, csv)
        IN  /\ second.result = first.result
            /\ second.df = first.df

C10_Witness ==
    /\ last.op = "load_csv" /\ last.result = "success"
    /\ df.n = MaxRows
    /\ \E csv \in LocFiles :
          /\ LocHeaderOk(csv) /\ Len(csv.rows) = df.n
          /\ \A i \in 1..df.n : Cell(df, LAT, i) = csv.rows[i][1]
          /\ load_csv_run(df, csv).df = df

\* the required columns of a table that hold a null in some row
NullRequired(d) ==
    {col \in Range(required_columns) :
        HasColumn(d, col) /\ \E i \in 1..d.n : isna(Cell(d, col, i))}

\* C4: an export attempted while a required column holds a null in some row
\* is blocked: no file is written, the columns holding the null are
\* reported, and the table after the attempt is the table before it, the
\* schedule columns included.
C4_BlockedExportUntouched ==
    buttons.btn_save_excel = NORMAL =>
        \A t \in StartTimes, io_ok \in BOOLEAN :
            LET run == continue_saving(df, disk, t, io_ok)
            IN  NullRequired(df) # {} =>
                  /\ run.result = "missing_data"
                  /\ run.disk = disk
                  /\ Range(run.detail) = NullRequired(df)
                  /\ run.df = df

\* two digits, zero-padded
TwoDigits(k) == IF k < 10 THEN "0" \o ToString(k) ELSE ToString(k)

\* HH:MM:SS of an instant
Clock(t) ==
    LET s == t % (24 * 60 * 60)
    IN  TwoDigits(s \div (60 * 60)) \o ":" \o TwoDigits((s \div 60) % 60) \o ":" \o TwoDigits(s % 60)

\* the instant of row i (counted from 1) of a schedule started at T0
Slot(T0, i) == T0 + (i - 1) * 27 * 60

\* column c of table d holds the schedule started at T0
HoldsSchedule(d, c, T0) ==
    /\ HasColumn(d, c)
    /\ \A i \in 1..d.n :
          Cell(d, c, i) = IF c \in Range(time_columns) THEN S(Clock(Slot(T0, i)))
                          ELSE DT(Slot(T0, i))

Submittable(d, in) ==
    IF in.picked THEN in.column \in offered_columns(d) ELSE offered_columns(d) # {}

\* table e is table d but for column c, which holds v in every row
OnlyColumnSet(d, e, c, v) ==
    /\ e.n = d.n
    /\ Range(e.columns) = Range(d.columns) \cup {c}
    /\ \A i \in 1..e.n : Cell(e, c, i) = v
    /\ \A o \in Range(d.columns) \ {c} : Column(e, o) = Column(d, o)

\* C7: a bulk-set on a column with an enumerated list of allowed values is
\* rejected with an error and changes no cell when the value is outside the
\* list; with a value of the list it sets the column to the value in every
\* row and changes no other column.
C7_EnumeratedValidated ==
    buttons.btn_add_block = NORMAL =>
        \A in \in BulkInputs :
            (Submittable(df, in) /\ in.column \in DOMAIN dropdown_values) =>
                LET run == apply_block_data(df, in.column, in.value)
                IN  IF in.value \in dropdown_values[in.column]
                    THEN /\ run.result = "applied"
                         /\ OnlyColumnSet(df, run.df, in.column, S(in.value))
                    ELSE /\ run.result = "error_invalid_option"
                         /\ run.df = df

C7_Witness ==
    /\ last.op = "apply_block_data" /\ last.result = "error_invalid_option"
    /\ df.n = MaxRows
    /\ \A i \in 1..df.n : Cell(df, PARENT, i) = S("P1")

\* the child value is valid for the one parent all rows of d share
ChildValid(d, value) ==
    /\ HasColumn(d, PARENT)
    /\ Cardinality(unique_parents(d)) = 1
    /\ \A p \in unique_parents(d) :
          /\ p[2] \in DOMAIN parent_child_map
          /\ value \in Range(parent_child_map[p[2]])

\* C8: a bulk-set of the child column is accepted only when all rows share
\* one parent value and the child value is in the list of that parent;
\* otherwise it is rejected and no cell changes.
C8_ChildFollowsParent ==
    buttons.btn_add_block = NORMAL =>
        \A in \in BulkInputs :
            (Submittable(df, in) /\ in.column = CHILD) =>
                LET run == apply_block_data(df, in.column, in.value)
                IN  \/ ChildValid(df, in.value)
                    \/ run.result # "applied" /\ run.df = df

\* C9: after a successful location ingest the bulk edit, the row edit and
\* the export are available to the user, also in a session that started
\* without an autoloaded table.
C9_EditingOpensAfterIngest ==
    (last.op = "load_csv" /\ last.result = "success") =>
        /\ buttons.btn_add_block = NORMAL
        /\ buttons.btn_add_granular = NORMAL
        /\ buttons.btn_save_excel = NORMAL

\* the protected columns of table e hold what they hold in table d
ProtectedKept(d, e) ==
    \A c \in protected_columns :
        /\ HasColumn(e, c) <=> HasColumn(d, c)
        /\ HasColumn(d, c) => Column(e, c) = Column(d, c)

\* C11: no bulk-set and no row edit changes a value of a protected column,
\* whatever column name and value the user submits: the bulk-set does not
\* take a protected column and the row editor skips it.
C11_ProtectedUntouched ==
    /\ buttons.btn_add_block = NORMAL =>
          \A in \in BulkInputs :
              Submittable(df, in) =>
                  ProtectedKept(df, apply_block_data(df, in.column, in.value).df)
    /\ buttons.btn_add_granular = NORMAL =>
          \A items \in SUBSET (1..df.n), e \in RowEdits :
              (items # {} /\ e[1] \in offered_columns(df)) =>
                  ProtectedKept(df, save_changes(df, items, OneEntry(df, e[1], e[2])))

\* the coverage rows of a file that fall into the bin of row i of table d
RowsInBin(d, i, rows) ==
    {j \in DOMAIN rows :
        SameBin(Cell(d, LAT, i), Cell(d, LON, i), rows[j][1], rows[j][2])}

\* the last row, in file order, of a non-empty set of rows
LastOf(hits) == CHOOSE j \in hits : \A m \in hits : m <= j

\* C12: when several coverage rows have one bin key, the last of them in
\* file order wins: every location row of that bin holds the signal of
\* that last coverage row and the verdict of that signal, never the value
\* of an earlier row or an aggregate.
C12_LastWriteWins ==
    \A df_cov \in CovFiles :
        LET run == load_coverage_run(df, df_cov)
            rows == df_cov.rows
        IN  run.result = "success" =>
              \A i \in 1..df.n :
                  LET hits == RowsInBin(df, i, rows)
                  IN  hits # {} =>
                        /\ Cell(run.df, DBM, i) = rows[LastOf(hits)][3]
                        /\ Cell(run.df, GATEWAY, i) = Verdict(rows[LastOf(hits)][3])

\* a table just matched, which is the match of a file whose two rows fall
\* into the bin of a location row with different signals: the row holds
\* the second
C12_Witness ==
    /\ last.op = "load_coverage_csv" /\ last.result = "success"
    /\ \E df_cov \in CovFiles, i \in 1..df.n :
          /\ CovHeaderOk(df_cov)
          /\ Len(df_cov.rows) >= 2
          /\ RowsInBin(df, i, df_cov.rows) = {1, 2}
          /\ df_cov.rows[1][3] # df_cov.rows[2][3]
          /\ load_coverage_run(df, df_cov).df = df
          /\ Cell(df, DBM, i) = df_cov.rows[2][3]
          /\ Cell(df, DBM, i) = F(-800)
          /\ Cell(df, GATEWAY, i) = NO

====
